---- MODULE Spec2Model ----
(***************************************************************************)
(* A model of callandcache (src/index.ts): an HTTP forward-fetch proxy     *)
(* with a cache-aside layer kept in files.                                  *)
(*                                                                         *)
(* JavaScript values are modelled as follows.  An object is a function     *)
(* from its property names to their values; a property whose value is      *)
(* `undefined` is a name that is not in the DOMAIN.  A file's text is a     *)
(* tuple: <<>> is the empty file, <<"garbage">> is text that is not JSON,   *)
(* <<"json", v>> is the JSON text of the value v.                           *)
(***************************************************************************)
EXTENDS Integers, Sequences, FiniteSets, TLC

\* ---------------------------------------------------------------- bounds
MaxRequests == 2   \* request events the listener hands out in one run

\* ------------------------------------------------------- program constants
OK       == 200    \* the one status that counts as successful
NotFound == 404    \* the status answered when the `u` parameter is missing

\* ------------------------------------------------------------ input sets
\* The serveHttp calls that can run at once.
Conns == {1, 2}

Urls ==
  { [host |-> "a.test", pathname |-> "/x"],
    [host |-> "b.test", pathname |-> "/x"] }

\* A Headers object: header name -> value, names unique.
NoHeaders == [n \in {} |-> ""]

UserAgent == [n \in {"user-agent"} |-> "curl"]

ResHeaders == { [n \in {"content-type"} |-> "text/plain"] }

Statuses == {200, 304, 500}

ResBodies == {"hello", "bye"}

\* class RequestInfo: the objects the constructor builds here are one
\* request and the ones that differ from it in one of the four fields.
BaseReq ==
  [url     |-> [host |-> "a.test", pathname |-> "/x"],
   method  |-> "GET",
   headers |-> NoHeaders,
   body    |-> ""]

RequestInfo ==
  { BaseReq,
    [BaseReq EXCEPT !.headers = UserAgent],
    [BaseReq EXCEPT !.method = "POST"],
    [BaseReq EXCEPT !.body = "q"] }
  \cup { [BaseReq EXCEPT !.url = u] : u \in Urls }

\* A transport Response of the origin, as fetch() resolves it: a 200 with
\* one of two bodies, another status with a body.
Response ==
  { x \in [status : Statuses, headers : ResHeaders, body : ResBodies] :
      x.status = OK \/ x.body = "hello" }

\* ------------------------------------------------------------------ state
VARIABLES
  fs,        \* the cache directory: path -> text, for the files that exist
  task,      \* per connection: the serveHttp call that handles it
  accepted,  \* request events handed out so far
  done,      \* how the handling of a request event ended, the last that did
  foreign,   \* history: the directory held a file this run has not written
  overlap,   \* history: two wrapped fetches were in flight at once
  fetchedOK, \* history: the paths of the requests the origin answered 200 to
  returned   \* history: <<key, response>> of every wrapped fetch that returned

vars == <<fs, task, accepted, done, foreign, overlap, fetchedOK, returned>>

\* Date.now(): the clock ticks with every request event.
Now == accepted

\* ------------------------------------------------------------ RequestInfo
\* URL.prototype.toString(): the serialized href.
UrlToString(u) == <<"http://", u.host, u.pathname>>

\* The loop `for (const [k, v] of headers) record[k] = v`.
HeadersToRecord(h) == [k \in DOMAIN h |-> h[k]]

\* What the spec calls the key of a request: its (url, method, body).
KeyOf(r) == <<r.url, r.method, r.body>>

\* RequestInfo.toJSON
RequestToJSON(r) ==
  [url     |-> UrlToString(r.url),
   method  |-> r.method,
   headers |-> HeadersToRecord(r.headers),
   body    |-> r.body]

\* JSON.stringify / JSON.parse on a text of the file system.
JSONStringify(v) == <<"json", v>>

IsJSONText(t) == Len(t) = 2 /\ t[1] = "json"

JSONParse(t) == t[2]

\* new Sha1().update(s).hex(): modelled as collision-free on the bounded
\* inputs, the digest of s is s under the tag "sha1".
Sha1Hex(s) == <<"sha1", s>>

\* Mutant: the body of the request is left out of the payload.
HashPayloadNoBody(r) ==
  [RequestToJSON(r) EXCEPT !.headers = NoHeaders, !.body = ""]

\* Mutant: the payload with the request's headers left in.
HashPayloadWithHeaders(r) == RequestToJSON(r)

\* The payload that is hashed: toJSON() with `headers` emptied.
HashPayload(r) == [RequestToJSON(r) EXCEPT !.headers = NoHeaders]

\* RequestInfo.hash
Hash(r) == Sha1Hex(JSONStringify(HashPayload(r)))

\* ----------------------------------------------------------- ResponseInfo

\* Mutant: the body is read whatever the status.
FromResponseAlwaysBody(res) ==
  [status  |-> res.status,
   headers |-> HeadersToRecord(res.headers),
   data    |-> res.body]

\* ResponseInfo.fromResponse: the body is read only when the status is 200.
FromResponse(res) ==
  [status  |-> res.status,
   headers |-> HeadersToRecord(res.headers),
   data    |-> IF res.status = OK THEN res.body ELSE ""]

\* Mutant: every status below 400 counts as successful.
IsSuccessfulBelow400(r) == "status" \in DOMAIN r /\ r.status < 400

\* get isSuccessful
IsSuccessful(r) == "status" \in DOMAIN r /\ r.status = OK

\* ResponseInfo.toJSON
ResponseToJSON(r) == r

\* Mutant: the headers of the record are not read back.
FromJSONNoHeaders(json) ==
  [k \in {"status", "data"} \cap DOMAIN json |-> json[k]]

\* ResponseInfo.fromJSON on a JSON object: the three properties are read,
\* the ones the object lacks stay undefined.
FromJSON(json) ==
  [k \in {"status", "headers", "data"} \cap DOMAIN json |-> json[k]]

\* ------------------------------------------------------------------ Cache
CacheRoot == "./tmp/cache"

\* Cache.buildFilepath: path.join(root, host, hash + ".json")
BuildFilepath(r) == <<CacheRoot, r.url.host, Hash(r)>>

EmptyText == <<>>

Garbled == <<"garbage">>

\* The CachedItem Cache.set builds, as the text it writes.
ItemText(date, r, res) ==
  JSONStringify([date |-> date,
                 req  |-> RequestToJSON(r),
                 res  |-> ResponseToJSON(res)])

\* Cache.get, from the text read to what the caller sees.  `read` is what
\* Deno.readTextFile did: "NotFound", "fault" (any other I/O error) or "ok".
ReadOf(files, r, fault) ==
  IF fault THEN "fault"
  ELSE IF BuildFilepath(r) \in DOMAIN files THEN "ok" ELSE "NotFound"

\* Mutant: every error of the read counts as a miss.
CacheGetSwallow(files, r, fault) ==
  LET read == ReadOf(files, r, fault)
      text == files[BuildFilepath(r)]
  IN  IF read # "ok" THEN [kind |-> "absent"]
      ELSE IF ~IsJSONText(text) THEN [kind |-> "absent"]
      ELSE IF "res" \notin DOMAIN JSONParse(text) THEN [kind |-> "absent"]
      ELSE [kind |-> "value", data |-> FromJSON(JSONParse(text).res)]

\* Mutant: an entry older than the clock is not served.
CacheGetExpiring(files, r, fault) ==
  LET read == ReadOf(files, r, fault)
      text == files[BuildFilepath(r)]
  IN  IF read = "fault" THEN [kind |-> "throw", err |-> "IOError"]
      ELSE IF read = "NotFound" THEN [kind |-> "absent"]
      ELSE IF ~IsJSONText(text) THEN [kind |-> "throw", err |-> "SyntaxError"]
      ELSE IF "res" \notin DOMAIN JSONParse(text) THEN [kind |-> "absent"]
      ELSE IF "date" \in DOMAIN JSONParse(text) /\ JSONParse(text).date < Now
        THEN [kind |-> "absent"]
      ELSE [kind |-> "value", data |-> FromJSON(JSONParse(text).res)]

CacheGetResult(files, r, fault) ==
  LET read == ReadOf(files, r, fault)
      text == files[BuildFilepath(r)]
  IN  IF read = "fault" THEN [kind |-> "throw", err |-> "IOError"]
      ELSE IF read = "NotFound" THEN [kind |-> "absent"]
      ELSE IF ~IsJSONText(text) THEN [kind |-> "throw", err |-> "SyntaxError"]
      ELSE IF "res" \notin DOMAIN JSONParse(text) THEN [kind |-> "absent"]
      ELSE [kind |-> "value", data |-> FromJSON(JSONParse(text).res)]

\* The text Deno.writeTextFile leaves when its write lands on `old`, the text
\* the file holds at that moment.  The file was truncated when it was opened;
\* text another writer has put there since is overwritten from offset 0, and
\* what is left of it past the end of `mine` stays.
WriteOutcomes(old, mine) ==
  IF old = EmptyText \/ old = mine THEN {mine} ELSE {mine, Garbled}

\* ------------------------------------------------------------------ Server
\* Statuses a Response may not carry a body with (the Response constructor
\* throws when one is given, be it the empty string).
NullBodyStatus == {204, 205, 304}

\* new Response(res.data, {status: res.status, headers: res.headers}):
\* properties that are undefined take the constructor's defaults.
ResponseThrows(r) ==
  "data" \in DOMAIN r /\ "status" \in DOMAIN r /\ r.status \in NullBodyStatus

NewResponse(r) ==
  [status  |-> IF "status" \in DOMAIN r THEN r.status ELSE OK,
   headers |-> IF "headers" \in DOMAIN r THEN r.headers ELSE NoHeaders,
   body    |-> IF "data" \in DOMAIN r THEN r.data ELSE ""]

\* ------------------------------------------------------------------ tasks
NoValue == <<>>

\* A connection slot on which no request event is being handled.
FreeTask ==
  [pc |-> "idle", req |-> NoValue, read |-> "none", res |-> NoValue,
   fromFetch |-> NoValue, item |-> NoValue, result |-> NoValue,
   via |-> "none", nGet |-> 0, nOrigin |-> 0, nSet |-> 0]

\* The positions of a wrapped fetch that is in flight.
InFlightPcs ==
  {"cache_get", "origin", "ensure_stat", "ensure_create", "write_open",
   "write_data", "respond"}

InFlight(c) == task[c].pc \in InFlightPcs

\* The end of the handling of a request event, where t is the task at that
\* moment: "replied" (the loop goes on), "closed" (serveHttp returned) or
\* "failed" (serveHttp ended by the exception err).
Ended(t, end, err, reply) ==
  [end |-> end, err |-> err, reply |-> reply, read |-> t.read,
   nGet |-> t.nGet, nOrigin |-> t.nOrigin, nSet |-> t.nSet]

\* The request event goes to the first slot that handles none.
FirstIdle(c) ==
  /\ task[c].pc = "idle"
  /\ \A d \in Conns : d < c => task[d].pc # "idle"

\* Texts the directory may hold when the process starts, left by somebody
\* else: no JSON, `{}`, and `{"res": {}}`.
ForeignTexts ==
  { Garbled,
    JSONStringify([n \in {} |-> 0]),
    JSONStringify([res |-> [n \in {} |-> 0]]) }

\* The cache directory is on disk: it is empty when the process starts, or
\* holds a file that this run has not written.
Init ==
  /\ fs \in {[p \in {} |-> EmptyText]}
            \cup {(BuildFilepath(BaseReq) :> t) : t \in ForeignTexts}
  /\ foreign = (DOMAIN fs # {})
  /\ task = [c \in Conns |-> FreeTask]
  /\ accepted = 0
  /\ done = Ended(FreeTask, "none", "none", NoValue)
  /\ overlap = FALSE
  /\ fetchedOK = {}
  /\ returned = {}

\* Mutant: after the 404 the loop goes on to the next request event.
ServeMissingParamKeepAlive(c) ==
  /\ FirstIdle(c)
  /\ accepted < MaxRequests
  /\ accepted' = accepted + 1
  /\ done' = Ended(FreeTask, "replied", "none",
                   [status |-> NotFound, headers |-> NoHeaders, body |-> ""])
  /\ UNCHANGED <<fs, task, foreign, overlap, fetchedOK, returned>>

\* serveHttp, a request event without the `u` parameter: 404, and return.
ServeMissingParam(c) ==
  /\ FirstIdle(c)
  /\ accepted < MaxRequests
  /\ accepted' = accepted + 1
  /\ done' = Ended(FreeTask, "closed", "none",
                   [status |-> NotFound, headers |-> NoHeaders, body |-> ""])
  /\ UNCHANGED <<fs, task, foreign, overlap, fetchedOK, returned>>

\* serveHttp, a request event with `u`: the RequestInfo is built and the
\* wrapped fetch is entered; it calls cache.get, which starts reading.
ServeRequest(c, r) ==
  /\ FirstIdle(c)
  /\ accepted < MaxRequests
  /\ accepted' = accepted + 1
  /\ task' = [task EXCEPT ![c] =
       [FreeTask EXCEPT !.pc = "cache_get", !.req = r]]
  /\ overlap' = (overlap \/ \E d \in Conns \ {c} : InFlight(d))
  /\ UNCHANGED <<fs, done, foreign, fetchedOK, returned>>

\* if (fromCache): the wrapper's test of what cache.get resolved to.
IsHit(out) == out.kind = "value"

\* Mutant: a cache.get that throws is tried again.
CacheGetRetrying(c, fault) ==
  /\ task[c].pc = "cache_get"
  /\ LET out  == CacheGetResult(fs, task[c].req, fault)
         read == [task[c] EXCEPT !.nGet = @ + 1,
                                 !.read = ReadOf(fs, task[c].req, fault)]
     IN  task' = [task EXCEPT ![c] =
           IF out.kind = "throw"
             THEN [read EXCEPT !.read = "none"]
           ELSE IF IsHit(out)
             THEN [read EXCEPT !.pc = "respond", !.via = "hit",
                               !.result = out.data]
             ELSE [read EXCEPT !.pc = "origin", !.nOrigin = @ + 1]]
  /\ UNCHANGED <<fs, accepted, done, foreign, overlap, fetchedOK, returned>>

\* Mutant: cache.get removes a file it cannot take a response from.
CacheGetEvicting(c, fault) ==
  /\ task[c].pc = "cache_get"
  /\ LET out  == CacheGetResult(fs, task[c].req, fault)
         read == [task[c] EXCEPT !.nGet = @ + 1,
                                 !.read = ReadOf(fs, task[c].req, fault)]
     IN  /\ IF out.kind = "throw"
              THEN /\ task' = [task EXCEPT ![c] = FreeTask]
                   /\ done' = Ended(read, "failed", out.err, NoValue)
            ELSE IF IsHit(out)
              THEN /\ task' = [task EXCEPT ![c] =
                        [read EXCEPT !.pc = "respond", !.via = "hit",
                                     !.result = out.data]]
                   /\ done' = done
              ELSE /\ task' = [task EXCEPT ![c] =
                        [read EXCEPT !.pc = "origin", !.nOrigin = @ + 1]]
                   /\ done' = done
         /\ fs' = IF read.read = "ok" /\ ~IsHit(out)
                    THEN [p \in DOMAIN fs \ {BuildFilepath(task[c].req)} |-> fs[p]]
                    ELSE fs
  /\ UNCHANGED <<accepted, foreign, overlap, fetchedOK, returned>>

\* The wrapped fetch from the end of cache.get's read: a hit returns the
\* cached response, a miss calls the wrapped method, an error propagates.
CacheGet(c, fault) ==
  /\ task[c].pc = "cache_get"
  /\ LET out  == CacheGetResult(fs, task[c].req, fault)
         read == [task[c] EXCEPT !.nGet = @ + 1,
                                 !.read = ReadOf(fs, task[c].req, fault)]
     IN  IF out.kind = "throw"
           THEN /\ task' = [task EXCEPT ![c] = FreeTask]
                /\ done' = Ended(read, "failed", out.err, NoValue)
         ELSE IF IsHit(out)
           THEN /\ task' = [task EXCEPT ![c] =
                     [read EXCEPT !.pc = "respond", !.via = "hit",
                                  !.result = out.data]]
                /\ done' = done
           ELSE /\ task' = [task EXCEPT ![c] =
                     [read EXCEPT !.pc = "origin", !.nOrigin = @ + 1]]
                /\ done' = done
  /\ UNCHANGED <<fs, accepted, foreign, overlap, fetchedOK, returned>>

\* Mutant: cache.set makes sure of the file before it looks at the response.
OriginRespondEnsureFirst(c, res) ==
  /\ task[c].pc = "origin"
  /\ LET info == FromResponse(res) IN
       /\ task' = [task EXCEPT ![c] =
            IF IsSuccessful(info)
              THEN [@ EXCEPT !.pc = "write_open", !.res = res,
                             !.fromFetch = info, !.nSet = @ + 1,
                             !.item = ItemText(Now, task[c].req, info)]
              ELSE [@ EXCEPT !.pc = "respond", !.res = res, !.fromFetch = info,
                             !.nSet = @ + 1, !.via = "miss", !.result = info]]
       /\ fetchedOK' = IF IsSuccessful(info)
                         THEN fetchedOK \cup {BuildFilepath(task[c].req)}
                         ELSE fetchedOK
  /\ fs' = IF BuildFilepath(task[c].req) \in DOMAIN fs
             THEN fs
             ELSE (BuildFilepath(task[c].req) :> EmptyText) @@ fs
  /\ UNCHANGED <<accepted, done, foreign, overlap, returned>>

\* Mutant: cache.set is called without `await`, the wrapper returns at once.
OriginRespondNoAwait(c, res) ==
  /\ task[c].pc = "origin"
  /\ task' = [task EXCEPT ![c] =
       [@ EXCEPT !.pc = "respond", !.res = res, !.fromFetch = FromResponse(res),
                 !.nSet = @ + 1, !.via = "miss", !.result = FromResponse(res)]]
  /\ fetchedOK' = IF IsSuccessful(FromResponse(res))
                     THEN fetchedOK \cup {BuildFilepath(task[c].req)}
                     ELSE fetchedOK
  /\ UNCHANGED <<fs, accepted, done, foreign, overlap, returned>>

\* Mutant: the wrapped fetch is dropped when the origin has answered.
OriginRespondAbandon(c, res) ==
  /\ task[c].pc = "origin"
  /\ task' = [task EXCEPT ![c] = FreeTask]
  /\ done' = Ended(task[c], "closed", "none", NoValue)
  /\ UNCHANGED <<fs, accepted, foreign, overlap, fetchedOK, returned>>

\* Fetcher.fetch resolves with the origin's response; the wrapper calls
\* cache.set, which returns at once for an unsuccessful response and
\* otherwise starts ensureFile.
OriginRespond(c, res) ==
  /\ task[c].pc = "origin"
  /\ LET info == FromResponse(res) IN
       /\ task' = [task EXCEPT ![c] =
            IF IsSuccessful(info)
              THEN [@ EXCEPT !.pc = "ensure_stat", !.res = res,
                             !.fromFetch = info, !.nSet = @ + 1]
              ELSE [@ EXCEPT !.pc = "respond", !.res = res, !.fromFetch = info,
                             !.nSet = @ + 1, !.via = "miss", !.result = info]]
       /\ fetchedOK' = IF IsSuccessful(info)
                         THEN fetchedOK \cup {BuildFilepath(task[c].req)}
                         ELSE fetchedOK
  /\ UNCHANGED <<fs, accepted, done, foreign, overlap, returned>>

\* fetch() rejects (the origin cannot be reached): the error propagates.
OriginThrow(c) ==
  /\ task[c].pc = "origin"
  /\ task' = [task EXCEPT ![c] = FreeTask]
  /\ done' = Ended(task[c], "failed", "TransportError", NoValue)
  /\ UNCHANGED <<fs, accepted, foreign, overlap, fetchedOK, returned>>

\* Cache.set, ensureFile's lstat of the path: the file is missing and is
\* about to be created, or it exists: ensureFile is done and the CachedItem
\* is built, with the date Date.now() reads.
EnsureStat(c, fault) ==
  /\ task[c].pc = "ensure_stat"
  /\ IF fault
       THEN /\ task' = [task EXCEPT ![c] = FreeTask]
            /\ done' = Ended(task[c], "failed", "IOError", NoValue)
       ELSE /\ task' = [task EXCEPT ![c] =
                 IF BuildFilepath(task[c].req) \in DOMAIN fs
                   THEN [@ EXCEPT !.pc = "write_open",
                                  !.item = ItemText(Now, task[c].req,
                                                    task[c].fromFetch)]
                   ELSE [@ EXCEPT !.pc = "ensure_create"]]
            /\ done' = done
  /\ UNCHANGED <<fs, accepted, foreign, overlap, fetchedOK, returned>>

\* Cache.set, ensureFile creates the file empty (its directories first);
\* then the CachedItem is built, with the date Date.now() reads.
EnsureCreate(c) ==
  /\ task[c].pc = "ensure_create"
  /\ fs' = (BuildFilepath(task[c].req) :> EmptyText) @@ fs
  /\ task' = [task EXCEPT ![c].pc = "write_open",
                          ![c].item = ItemText(Now, task[c].req, task[c].fromFetch)]
  /\ UNCHANGED <<accepted, done, foreign, overlap, fetchedOK, returned>>

\* Mutant: the file is opened without truncating it.
WriteOpenNoTruncate(c, fault) ==
  /\ task[c].pc = "write_open"
  /\ IF fault
       THEN /\ task' = [task EXCEPT ![c] = FreeTask]
            /\ done' = Ended(task[c], "failed", "IOError", NoValue)
            /\ fs' = fs
       ELSE /\ task' = [task EXCEPT ![c].pc = "write_data"]
            /\ done' = done
            /\ fs' = IF BuildFilepath(task[c].req) \in DOMAIN fs
                       THEN fs
                       ELSE (BuildFilepath(task[c].req) :> EmptyText) @@ fs
  /\ UNCHANGED <<accepted, foreign, overlap, fetchedOK, returned>>

\* Cache.set, Deno.writeTextFile opens the file: created if missing, truncated.
WriteOpen(c, fault) ==
  /\ task[c].pc = "write_open"
  /\ IF fault
       THEN /\ task' = [task EXCEPT ![c] = FreeTask]
            /\ done' = Ended(task[c], "failed", "IOError", NoValue)
            /\ fs' = fs
       ELSE /\ task' = [task EXCEPT ![c].pc = "write_data"]
            /\ done' = done
            /\ fs' = (BuildFilepath(task[c].req) :> EmptyText) @@ fs
  /\ UNCHANGED <<accepted, foreign, overlap, fetchedOK, returned>>

\* Cache.set, Deno.writeTextFile writes the text; set is done and the wrapper
\* returns what the origin gave.
WriteData(c) ==
  /\ task[c].pc = "write_data"
  /\ \E text \in WriteOutcomes(fs[BuildFilepath(task[c].req)], task[c].item) :
       fs' = (BuildFilepath(task[c].req) :> text) @@ fs
  /\ task' = [task EXCEPT ![c].pc = "respond", ![c].via = "miss",
                          ![c].result = task[c].fromFetch]
  /\ UNCHANGED <<accepted, done, foreign, overlap, fetchedOK, returned>>

\* serveHttp, requestEvent.respondWith(new Response(...)): the constructor's
\* exception ends serveHttp; otherwise the reply is written if the client is
\* still there (clientOpen, which nothing has looked at until now) and the
\* loop waits for the next request event, or finds the connection closed.
Respond(c, clientOpen) ==
  /\ task[c].pc = "respond"
  /\ returned' = returned \cup {<<KeyOf(task[c].req), task[c].result>>}
  /\ task' = [task EXCEPT ![c] = FreeTask]
  /\ done' =
       IF ResponseThrows(task[c].result)
         THEN Ended(task[c], "failed", "TypeError", NoValue)
       ELSE IF clientOpen
         THEN Ended(task[c], "replied", "none", NewResponse(task[c].result))
         ELSE Ended(task[c], "closed", "none", NoValue)
  /\ UNCHANGED <<fs, accepted, foreign, overlap, fetchedOK>>

Next ==
  \/ \E c \in Conns : ServeMissingParam(c)
  \/ \E c \in Conns, r \in RequestInfo : ServeRequest(c, r)
  \/ \E c \in Conns, fault \in BOOLEAN : CacheGet(c, fault)
  \/ \E c \in Conns, res \in Response : OriginRespond(c, res)
  \/ \E c \in Conns : OriginThrow(c)
  \/ \E c \in Conns, fault \in BOOLEAN : EnsureStat(c, fault)
  \/ \E c \in Conns : EnsureCreate(c)
  \/ \E c \in Conns, fault \in BOOLEAN : WriteOpen(c, fault)
  \/ \E c \in Conns : WriteData(c)
  \/ \E c \in Conns, clientOpen \in BOOLEAN : Respond(c, clientOpen)

Spec == Init /\ [][Next]_vars

\* ----------------------------------------------------------------- claims
\* The path of the request the task c handles, and the text there.
PathOf(c) == BuildFilepath(task[c].req)

HasReq(c) == task[c].pc \in InFlightPcs

\* A text that parses to an object with a `res` property.
HoldsRecord(text) == IsJSONText(text) /\ "res" \in DOMAIN JSONParse(text)

\* A text that is a complete record of a response.
IsValidRecord(text) ==
  /\ HoldsRecord(text)
  /\ DOMAIN JSONParse(text).res = {"status", "headers", "data"}

\* The positions inside Cache.set.
SetPcs == {"ensure_stat", "ensure_create", "write_open", "write_data"}

\* In this step the read of cache.get on the connection c ends, as `how`.
ReadEnds(c, how) ==
  /\ task[c].pc = "cache_get"
  /\ \/ task'[c].read = how
     \/ task'[c].pc = "idle" /\ done'.read = how

\* C1: when cache.get finds a stored response, the wrapped fetch returns
\* exactly that response, the origin is not invoked, cache.set is not called,
\* the store is left alone, and the date of the entry plays no part.
C1_HitShortCircuits ==
  [][\A c \in Conns :
       ( /\ ReadEnds(c, "ok")
         /\ HoldsRecord(fs[PathOf(c)]) )
       => /\ task'[c].pc = "respond"
          /\ task'[c].via = "hit"
          /\ task'[c].result = FromJSON(JSONParse(fs[PathOf(c)]).res)
          /\ task'[c].nOrigin = 0
          /\ task'[c].nSet = 0
          /\ fs' = fs
          /\ fetchedOK' = fetchedOK]_vars

\* A hit on an entry that is older than the clock.
C1_Witness ==
  \E c \in Conns :
    /\ task[c].pc = "respond"
    /\ task[c].via = "hit"
    /\ ~foreign
    /\ PathOf(c) \in DOMAIN fs
    /\ IsValidRecord(fs[PathOf(c)])
    /\ JSONParse(fs[PathOf(c)]).date < Now
    /\ task[c].result = JSONParse(fs[PathOf(c)]).res

\* C2: when cache.get finds nothing, the wrapped fetch invokes the origin
\* once, then calls cache.set once with what the origin gave, and returns that
\* same response only when set is done: at once for an unsuccessful response,
\* at the end of set's write for a successful one.
C2_MissOrdering ==
  [][\A c \in Conns :
       /\ ( \/ ReadEnds(c, "NotFound")
            \/ /\ ReadEnds(c, "ok")
               /\ IsJSONText(fs[PathOf(c)])
               /\ ~HoldsRecord(fs[PathOf(c)]) )
          => /\ task'[c].pc = "origin"
             /\ task'[c].nOrigin = 1
             /\ task'[c].nSet = 0
       /\ task'[c].nSet > task[c].nSet
          => /\ task[c].pc = "origin"
             /\ task'[c].nSet = 1
             /\ task'[c].fromFetch = FromResponse(task'[c].res)
       /\ (task[c].pc \in SetPcs /\ task'[c].pc # "idle")
          => task'[c].fromFetch = task[c].fromFetch
       /\ (task'[c].via = "miss" /\ task[c].via # "miss")
          => /\ task'[c].pc = "respond"
             /\ task'[c].result = task'[c].fromFetch
             /\ task'[c].nOrigin = 1
             /\ task'[c].nSet = 1
             /\ IF task'[c].result.status = OK
                  THEN task[c].pc = "write_data"
                  ELSE task[c].pc = "origin" /\ fs' = fs]_vars

\* A miss that has returned a successful response, written by set.
C2_Witness ==
  \E c \in Conns :
    /\ task[c].pc = "respond"
    /\ task[c].via = "miss"
    /\ task[c].result.status = OK
    /\ PathOf(c) \in DOMAIN fs
    /\ fs[PathOf(c)] = task[c].item

\* The successful responses the wrapped fetch has returned for the key of
\* the request the task c handles.
PriorOK(c) ==
  {e \in returned : /\ e[1] = KeyOf(task[c].req)
                    /\ "status" \in DOMAIN e[2]
                    /\ e[2].status = OK}

\* C3: with requests handled one after the other and nobody else touching
\* the store, once a wrapped fetch has returned a 200 response R for a key,
\* every later wrapped fetch that returns for the same (url, method, body),
\* whatever its headers, returns R's status and body without invoking the
\* origin; the first one invoked the origin exactly once.
C3_CacheAside ==
  (~overlap /\ ~foreign) =>
    \A c \in Conns :
      task[c].pc = "respond" =>
        /\ \A e \in PriorOK(c) :
             /\ task[c].result.status = e[2].status
             /\ task[c].result.data = e[2].data
             /\ task[c].nOrigin = 0
        /\ (PriorOK(c) = {} /\ task[c].result.status = OK)
             => task[c].nOrigin = 1

\* A second call, with other headers than the call that filled the entry,
\* is answered from the cache.
C3_Witness ==
  \E c \in Conns :
    /\ ~overlap /\ ~foreign
    /\ task[c].pc = "respond"
    /\ task[c].via = "hit"
    /\ PriorOK(c) # {}
    /\ task[c].nOrigin = 0
    /\ PathOf(c) \in DOMAIN fs
    /\ IsValidRecord(fs[PathOf(c)])
    /\ JSONParse(fs[PathOf(c)]).req.headers # HeadersToRecord(task[c].req.headers)

\* C4: for an origin response that is not 200, cache.set returns at once:
\* the store is unchanged and no file is created; as long as the origin has
\* not answered 200 for a path, there is no file there and every request for
\* it misses and invokes the origin again.
C4_NoCachingOfFailures ==
  /\ [](\A c \in Conns :
          (task[c].pc = "respond" /\ ~foreign /\ PathOf(c) \notin fetchedOK)
          => /\ task[c].via = "miss"
             /\ task[c].nOrigin = 1
             /\ PathOf(c) \notin DOMAIN fs)
  /\ [][\A c \in Conns :
          (task'[c].nSet > task[c].nSet /\ task'[c].fromFetch.status # OK)
          => /\ fs' = fs
             /\ task'[c].pc = "respond"]_vars

\* The origin is asked again for a request it has answered 500 before.
C4_Witness ==
  \E c \in Conns :
    /\ ~foreign
    /\ task[c].pc = "respond"
    /\ task[c].via = "miss"
    /\ task[c].nOrigin = 1
    /\ task[c].result.status = 500
    /\ \E e \in returned : e[1] = KeyOf(task[c].req) /\ e[2].status = 500
    /\ DOMAIN fs = {}

\* C5: as long as nobody else touches the store, every file in it is at a
\* path the origin has answered 200 for, and a record in it is the record of
\* a 200 response to a request of that path.
C5_StoreInvariant ==
  ~foreign =>
    \A p \in DOMAIN fs :
      /\ p \in fetchedOK
      /\ \/ fs[p] = EmptyText
         \/ fs[p] = Garbled
         \/ /\ IsValidRecord(fs[p])
            /\ JSONParse(fs[p]).res.status = OK
            /\ \E r \in RequestInfo :
                 /\ BuildFilepath(r) = p
                 /\ JSONParse(fs[p]).req = RequestToJSON(r)

\* Requests have overlapped, the origin has failed some, and a record is in
\* the store.
C5_Witness ==
  /\ ~foreign
  /\ overlap
  /\ \E e \in returned : e[2].status = 500
  /\ \E p \in DOMAIN fs : IsValidRecord(fs[p])

\* C6: a file at the path of a request that holds no valid cache record
\* (no JSON, an empty file, JSON without a usable `res`) makes cache.get report
\* absent: the wrapped fetch goes to the origin.
C6_CorruptionIsMiss ==
  [][\A c \in Conns :
       (ReadEnds(c, "ok") /\ ~IsValidRecord(fs[PathOf(c)]))
       => task'[c].pc = "origin"]_vars

\* C7: a read of the cache path that fails with another error than not-found
\* makes cache.get raise it: the wrapped fetch fails with that error, the
\* origin is not invoked, cache.set is not called and the store is unchanged.
C7_IOFaultPropagates ==
  /\ [](/\ \A c \in Conns : task[c].read # "fault"
        /\ done.read = "fault"
           => /\ done.end = "failed"
              /\ done.err = "IOError"
              /\ done.nOrigin = 0
              /\ done.nSet = 0)
  /\ [][\A c \in Conns :
          ReadEnds(c, "fault")
          => /\ task'[c].pc = "idle"
             /\ fs' = fs
             /\ fetchedOK' = fetchedOK]_vars

\* A read has failed on a store that holds a record.
C7_Witness ==
  /\ done.read = "fault"
  /\ done.end = "failed"
  /\ done.err = "IOError"
  /\ \E p \in DOMAIN fs : IsValidRecord(fs[p])

\* The (url, method, body) of a serialized request.
JSONKey(j) == <<j.url, j.method, j.body>>

\* C8: two requests have the same hash exactly when their (url, method,
\* body) are equal, whatever their headers, and then the same path; a record
\* cache.set has written is at the path of a request exactly when it was
\* written for a request with that (url, method, body).
C8_FingerprintStability ==
  /\ \A c, d \in Conns :
       (HasReq(c) /\ HasReq(d))
       => /\ (KeyOf(task[c].req) = KeyOf(task[d].req))
             <=> (Hash(task[c].req) = Hash(task[d].req))
          /\ (KeyOf(task[c].req) = KeyOf(task[d].req))
             => PathOf(c) = PathOf(d)
  /\ ~foreign =>
       \A c \in Conns, p \in DOMAIN fs :
         (HasReq(c) /\ IsValidRecord(fs[p]))
         => ((p = PathOf(c))
             <=> (JSONKey(JSONParse(fs[p]).req)
                    = JSONKey(RequestToJSON(task[c].req))))

\* Two requests in flight that differ in their headers alone, and one that
\* differs from the record in the store by more than that.
C8_Witness ==
  /\ \E c, d \in Conns :
       /\ HasReq(c) /\ HasReq(d)
       /\ task[c].req.headers # task[d].req.headers
       /\ KeyOf(task[c].req) = KeyOf(task[d].req)
       /\ Hash(task[c].req) = Hash(task[d].req)
       /\ PathOf(c) \in DOMAIN fs
       /\ IsValidRecord(fs[PathOf(c)])

\* C9: cache.set overwrites: opening the file empties it whatever it held,
\* and the write that lands on the emptied file leaves exactly the new record
\* there, so that a get returns the response of this set and no other.
C9_LastSetWins ==
  [][\A c \in Conns :
       /\ (task[c].pc = "write_open" /\ task'[c].pc = "write_data")
          => fs' = (PathOf(c) :> EmptyText) @@ fs
       /\ ( /\ task[c].pc = "write_data"
            /\ task'[c].pc = "respond"
            /\ PathOf(c) \in DOMAIN fs
            /\ fs[PathOf(c)] = EmptyText )
          => /\ fs' = (PathOf(c) :> ItemText(JSONParse(task[c].item).date,
                                              task[c].req, task[c].fromFetch))
                        @@ fs
             /\ DOMAIN fs' = DOMAIN fs
             /\ JSONParse(fs'[PathOf(c)]).res = task[c].fromFetch]_vars

\* A second set for a request has completed with another response than the
\* first, and the record in the store is the second one's.
C9_Witness ==
  \E c \in Conns :
    /\ task[c].pc = "respond"
    /\ task[c].via = "miss"
    /\ task[c].result.status = OK
    /\ \E e \in PriorOK(c) : e[2].data # task[c].result.data
    /\ PathOf(c) \in DOMAIN fs
    /\ IsValidRecord(fs[PathOf(c)])
    /\ JSONParse(fs[PathOf(c)]).res = task[c].result

C11_NeverRemoved ==
  [][/\ DOMAIN fs \subseteq DOMAIN fs'
     /\ \A p \in DOMAIN fs :
          fs'[p] # fs[p]
          => \E c \in Conns :
               /\ task[c].pc \in {"ensure_create", "write_open", "write_data"}
               /\ PathOf(c) = p
               /\ task[c].fromFetch.status = OK
               /\ task'[c].pc # task[c].pc]_vars

\* The store has grown: it holds the record of an earlier set and, at another
\* path, the record of a later one.
C11_Witness ==
  \E p, q \in DOMAIN fs :
    /\ p # q
    /\ IsValidRecord(fs[p])
    /\ IsValidRecord(fs[q])
    /\ JSONParse(fs[p]).date < JSONParse(fs[q]).date

\* C12: a request event is either one with the `u` parameter, which starts a
\* wrapped fetch, or one without: that one is answered 404 with an empty body,
\* with no cache.get, no origin call and no cache.set, the store and every
\* wrapped fetch in flight are left alone, and serveHttp returns.
C12_MissingParam ==
  [][accepted' # accepted
     => \/ \E c \in Conns : task[c].pc = "idle" /\ task'[c].pc = "cache_get"
        \/ /\ task' = task
           /\ fs' = fs
           /\ fetchedOK' = fetchedOK
           /\ returned' = returned
           /\ done'.end = "closed"
           /\ done'.err = "none"
           /\ done'.reply =
                [status |-> 404, headers |-> NoHeaders, body |-> ""]
           /\ done'.nGet = 0
           /\ done'.nOrigin = 0
           /\ done'.nSet = 0]_vars

\* A request without `u` has been answered while the store held a record and
\* a wrapped fetch was in flight.
C12_Witness ==
  /\ done.end = "closed"
  /\ done.nGet = 0
  /\ done.reply = [status |-> 404, headers |-> NoHeaders, body |-> ""]
  /\ \E p \in DOMAIN fs : IsValidRecord(fs[p])
  /\ \E c \in Conns : InFlight(c)

\* C13: the last write wins: when the write of a cache.set completes, the
\* file at its path holds the valid record of the response of that set,
\* whatever another set for the same path has done in the meantime.
C13_LastWriteWins ==
  [][\A c \in Conns :
       (task[c].pc = "write_data" /\ task'[c].pc = "respond")
       => /\ IsValidRecord(fs'[PathOf(c)])
          /\ JSONParse(fs'[PathOf(c)]).res = task[c].fromFetch]_vars

\* C14: a cache.get whose read ends while a cache.set for the same path is
\* between the creation of the file and the end of its write reports absent
\* or returns a complete response: it raises nothing and returns no partial
\* record.
C14_PartialWriteIsMiss ==
  [][\A c \in Conns :
       ( /\ ReadEnds(c, "ok")
         /\ \E d \in Conns \ {c} :
              /\ task[d].pc \in {"write_open", "write_data"}
              /\ PathOf(d) = PathOf(c) )
       => \/ task'[c].pc = "origin"
          \/ /\ task'[c].pc = "respond"
             /\ DOMAIN task'[c].result = {"status", "headers", "data"}]_vars

\* --------------------------------------------------------------- liveness
\* What serveHttp and the wrapped fetch do on the connection c once a request
\* event is taken: each of these steps is the continuation of an awaited
\* promise, which the event loop runs when the promise settles.
Step(c) ==
  \/ \E fault \in BOOLEAN : CacheGet(c, fault)
  \/ \E res \in Response : OriginRespond(c, res)
  \/ OriginThrow(c)
  \/ \E fault \in BOOLEAN : EnsureStat(c, fault)
  \/ EnsureCreate(c)
  \/ \E fault \in BOOLEAN : WriteOpen(c, fault)
  \/ WriteData(c)
  \/ \E clientOpen \in BOOLEAN : Respond(c, clientOpen)

\* Every read, fetch and write settles, and no continuation waits for ever.
Fairness == \A c \in Conns : WF_vars(Step(c))

LiveSpec == Init /\ [][Next]_vars /\ Fairness

\* C15: a wrapped fetch that has invoked the origin finishes: it returns or
\* fails with the error of the origin or of the file system; and a cache.set
\* that is called with a 200 response completes its write unless the file
\* system fails it.  Nothing in between looks at the client's connection.
C15_RunsToCompletion ==
  \A c \in Conns :
    /\ (task[c].pc = "origin")
         ~> \/ task[c].pc = "respond"
            \/ task[c].pc = "idle" /\ done.end = "failed"
    /\ (task[c].pc = "ensure_stat")
         ~> \/ /\ task[c].pc = "respond"
               /\ task[c].via = "miss"
               /\ PathOf(c) \in DOMAIN fs
            \/ task[c].pc = "idle" /\ done.err = "IOError"

\* The client was gone when the reply was due, and the record of the 200
\* response is in the store.
C15_Witness ==
  /\ accepted = 1
  /\ done.end = "closed"
  /\ done.nOrigin = 1
  /\ done.nSet = 1
  /\ \E p \in DOMAIN fs :
       IsValidRecord(fs[p]) /\ JSONParse(fs[p]).res.status = OK

\* C16: one wrapped fetch calls cache.get once, the origin at most once and
\* cache.set at most once, set never without the origin; and the step that
\* fails ends the wrapped fetch with the calls made so far: nothing is tried
\* again.
C16_NoRetry ==
  /\ [](/\ \A c \in Conns :
             /\ task[c].nGet = (IF task[c].pc \in {"idle", "cache_get"}
                                  THEN 0 ELSE 1)
             /\ task[c].nOrigin <= 1
             /\ task[c].nSet <= task[c].nOrigin
        /\ done.nGet <= 1
        /\ done.nOrigin <= done.nGet
        /\ done.nSet <= done.nOrigin
        /\ done.end = "failed" => done.nGet = 1)
  /\ [][\A c \in Conns :
          (InFlight(c) /\ task'[c].pc = "idle" /\ done'.end = "failed")
          => /\ done'.nGet = 1
             /\ done'.nOrigin = task[c].nOrigin
             /\ done'.nSet = task[c].nSet]_vars

\* A cache.set has failed after a miss and a 200 of the origin, and the
\* wrapped fetch has ended with one call of each.
C16_Witness ==
  /\ done.end = "failed"
  /\ done.err = "IOError"
  /\ done.nGet = 1
  /\ done.nOrigin = 1
  /\ done.nSet = 1

\* C17: a cache.get that follows a completed cache.set of a 200 response R
\* for the same request returns R's status, headers and body: the write of a
\* set that no other set interferes with leaves a text from which get takes
\* R, and with requests handled one after the other on a directory that
\* starts empty, a hit returns what a miss for that key has returned, so
\* that the reply built from it is the reply the miss gave.
C17_HitEqualsMiss ==
  /\ [](\A c \in Conns :
          (task[c].pc = "respond" /\ task[c].via = "hit"
             /\ ~overlap /\ ~foreign)
          => \E e \in returned :
               /\ e[1] = KeyOf(task[c].req)
               /\ DOMAIN task[c].result = {"status", "headers", "data"}
               /\ task[c].result.status = e[2].status
               /\ task[c].result.headers = e[2].headers
               /\ task[c].result.data = e[2].data
               /\ NewResponse(task[c].result) = NewResponse(e[2]))
  /\ [][\A c \in Conns :
          ( /\ task[c].pc = "write_data"
            /\ task'[c].pc = "respond"
            /\ fs[PathOf(c)] = EmptyText )
          => /\ CacheGetResult(fs', task[c].req, FALSE).kind = "value"
             /\ CacheGetResult(fs', task[c].req, FALSE).data
                  = [status  |-> OK,
                     headers |-> HeadersToRecord(task[c].res.headers),
                     data    |-> task[c].res.body]]_vars

\* A hit has returned the 200 response, headers and body included, that the
\* miss before it returned for another request of the same key.
C17_Witness ==
  \E c \in Conns :
    /\ ~overlap /\ ~foreign
    /\ task[c].pc = "respond"
    /\ task[c].via = "hit"
    /\ task[c].result.headers # NoHeaders
    /\ task[c].result.data = "bye"
    /\ <<KeyOf(task[c].req), task[c].result>> \in returned

\* C18: the path of a request is that of another exactly when their hashes
\* are equal, which is exactly when their (url, method, body) are; so a step
\* of cache.set for a request leaves what cache.get returns for every request
\* of another key as it was, on the same host or another, and the completed
\* write of a set that no other set interferes with makes cache.get return
\* the response set for every request of the same key.
C18_KeyIsolation ==
  [][\A c \in Conns :
       (task[c].pc \in SetPcs /\ task'[c].pc # task[c].pc)
       => \A r \in RequestInfo :
            /\ (BuildFilepath(r) = PathOf(c)) <=> (Hash(r) = Hash(task[c].req))
            /\ (BuildFilepath(r) = PathOf(c))
                 <=> (KeyOf(r) = KeyOf(task[c].req))
            /\ KeyOf(r) # KeyOf(task[c].req)
                 => CacheGetResult(fs', r, FALSE) = CacheGetResult(fs, r, FALSE)
            /\ ( /\ KeyOf(r) = KeyOf(task[c].req)
                 /\ task[c].pc = "write_data"
                 /\ fs[PathOf(c)] = EmptyText )
                 => CacheGetResult(fs', r, FALSE)
                      = [kind |-> "value", data |-> task[c].fromFetch]]_vars

\* The store holds the records of two requests for one host that differ in
\* method or body, each with its own response.
C18_Witness ==
  \E p, q \in DOMAIN fs :
    /\ p # q
    /\ p[2] = q[2]
    /\ IsValidRecord(fs[p])
    /\ IsValidRecord(fs[q])
    /\ JSONParse(fs[p]).req.url = JSONParse(fs[q]).req.url
    /\ JSONParse(fs[p]).res.data # JSONParse(fs[q]).res.data

\* C19: the ResponseInfo built from a response of the origin has its status
\* and its headers whatever the status, its body when the status is 200 and
\* the empty string as body for every other status.
C19_BodyOnlyOnSuccess ==
  \A c \in Conns :
    task[c].pc \in SetPcs \cup {"respond"} /\ task[c].via # "hit"
    => /\ DOMAIN task[c].fromFetch = {"status", "headers", "data"}
       /\ task[c].fromFetch.status = task[c].res.status
       /\ task[c].fromFetch.headers = HeadersToRecord(task[c].res.headers)
       /\ task[c].res.status = 200 => task[c].fromFetch.data = task[c].res.body
       /\ task[c].res.status # 200 => task[c].fromFetch.data = ""

\* One ResponseInfo built from a 200 with its body, another from a 500 whose
\* body is dropped.
C19_Witness ==
  \E c, d \in Conns :
    /\ task[c].pc = "respond" /\ task[c].via = "miss"
    /\ task[d].pc = "respond" /\ task[d].via = "miss"
    /\ task[c].res.status = 200
    /\ task[c].fromFetch.data = "bye"
    /\ task[d].res.status = 500
    /\ task[d].res.body = "hello"
    /\ task[d].fromFetch.data = ""
    /\ task[d].fromFetch.headers = task[c].fromFetch.headers

\* C20: on a directory that only cache.set has written, every response the
\* wrapped fetch returns from the cache has status 200; a response of another
\* status is returned on the miss path alone, as the origin gave it.
C20_HitIsOK ==
  ~foreign =>
    \A c \in Conns :
      task[c].pc = "respond"
      => /\ task[c].via = "hit"
              => /\ "status" \in DOMAIN task[c].result
                 /\ task[c].result.status = 200
                 /\ task[c].nOrigin = 0
         /\ task[c].via = "miss"
              => /\ task[c].result = task[c].fromFetch
                 /\ task[c].nOrigin = 1
         /\ task[c].via \in {"hit", "miss"}

\* A hit while the wrapped fetch that filled the entry has not replied yet.
C20_Witness ==
  \E c, d \in Conns :
    /\ ~foreign
    /\ task[c].pc = "respond" /\ task[c].via = "hit"
    /\ task[c].result.status = 200
    /\ task[d].pc = "respond" /\ task[d].via = "miss"
    /\ PathOf(c) = PathOf(d)
    /\ task[c].result = task[d].result

====
